---- MODULE Spec2Model ----
(***************************************************************************)
(* A model of src/shelf_track.py, a single-user bookstore inventory        *)
(* manager: two SQLite tables (book, author), five menu operations and     *)
(* the input-validation loops that gate every write.                       *)
(*                                                                         *)
(* Text typed by the user is a sequence of one-character strings, so that  *)
(* str.strip, str.lower, str.isdigit, str.isalpha, len and int() are       *)
(* computed the way Python computes them.  One action is one answer to one *)
(* prompt, together with every storage access the code makes before it     *)
(* prompts again.                                                          *)
(***************************************************************************)
EXTENDS Integers, Sequences, FiniteSets, TLC

VARIABLES
    pc,             \* the prompt (or program point) the process is waiting at
    schema,         \* TRUE once the book and author tables exist in the store
    book,           \* the book table: id -> [title, authorID, qty]
    author,         \* the author table: id -> [name, country]
    book_id,        \* enter_book: validated book id
    title,          \* enter_book: validated (stripped) title
    typed_title,    \* enter_book: the title exactly as it was typed
    author_id,      \* enter_book: validated author id
    name,           \* enter_book / update_book: validated author name
    inline,         \* enter_book: the author was created inline by this call
    id_chosen,      \* update_book: the chosen id, kept as the typed string
    book_chosen,    \* update_book: the joined row fetched when the book was chosen
    update_qty,     \* update_book: the validated new quantity
    new_author_id,  \* update_book: the author id typed in the authorID leaf
    title_match,    \* update_book: "unbound", "None" or "row" (last title check)
    fetched,        \* update_book / delete: "unbound", "None" or "row", the
                    \* binding of book_chosen / book_found
    out,            \* the messages printed by the last step
    acc,            \* the storage statements executed by the last step
    shown,          \* the rows reported by the last step (search, view_details)
    last,           \* the name of the last step taken
    before,         \* <<book, author>> as they were when the operation under
                    \* way was chosen from the menu (after the seeding: as
                    \* they were before it)
    added,          \* what the last successful AddBook was given, for as long
                    \* as the row it wrote has not been written again
    ops,            \* number of AddBook / UpdateBook invocations so far
    faults          \* whether the store may raise storage faults

vars == << pc, schema, book, author, book_id, title, typed_title, author_id,
           name, inline, id_chosen, book_chosen, update_qty, new_author_id,
           title_match, fetched, out, acc, shown, last, before, added, ops,
           faults >>

ub_locals == << id_chosen, book_chosen, update_qty, new_author_id, title_match,
               fetched >>

locals == << book_id, title, typed_title, author_id, name, inline, ub_locals >>

-----------------------------------------------------------------------------
(* Bounds of the model.                                                    *)

\* AddBook and UpdateBook invocations explored in one behaviour.
MaxOps == 1

\* Author rows created inline (beyond the seeded ones) in one behaviour.
MaxAuthors == 1

-----------------------------------------------------------------------------
(* Python text primitives.                                                 *)

Digits == <<"0", "1", "2", "3", "4", "5", "6", "7", "8", "9">>

UpperCase == <<"A", "B", "C", "D", "E", "F", "G", "H", "I", "J", "K", "L", "M",
               "N", "O", "P", "Q", "R", "S", "T", "U", "V", "W", "X", "Y", "Z">>

LowerCase == <<"a", "b", "c", "d", "e", "f", "g", "h", "i", "j", "k", "l", "m",
               "n", "o", "p", "q", "r", "s", "t", "u", "v", "w", "x", "y", "z">>

IsDigitChar(c) == \E i \in 1..10 : Digits[i] = c

DigitVal(c) == (CHOOSE i \in 1..10 : Digits[i] = c) - 1

IsAlphaChar(c) == \E i \in 1..26 : UpperCase[i] = c \/ LowerCase[i] = c

IsSpace(c) == c = " "

LowerChar(c) ==
    IF \E i \in 1..26 : UpperCase[i] = c
    THEN LowerCase[CHOOSE i \in 1..26 : UpperCase[i] = c]
    ELSE c

\* str.lower()
Lower(s) == [i \in 1..Len(s) |-> LowerChar(s[i])]

RECURSIVE LStrip(_)
LStrip(s) == IF s # <<>> /\ IsSpace(Head(s)) THEN LStrip(Tail(s)) ELSE s

RECURSIVE RStrip(_)
RStrip(s) ==
    IF s # <<>> /\ IsSpace(s[Len(s)]) THEN RStrip(SubSeq(s, 1, Len(s) - 1)) ELSE s

\* a faulty variant: the whitespace around the text is kept
Strip_Identity(s) == s

\* str.strip()
Strip(s) == RStrip(LStrip(s))

\* str.lstrip('-')
RECURSIVE LStripMinus(_)
LStripMinus(s) == IF s # <<>> /\ Head(s) = "-" THEN LStripMinus(Tail(s)) ELSE s

\* str.isdigit(): non-empty and every character a digit
IsDigit(s) == s # <<>> /\ \A i \in 1..Len(s) : IsDigitChar(s[i])

\* the value of a string of decimal digits
RECURSIVE DigitsValue(_)
DigitsValue(s) ==
    IF s = <<>> THEN 0
    ELSE 10 * DigitsValue(SubSeq(s, 1, Len(s) - 1)) + DigitVal(s[Len(s)])

\* int(s): surrounding whitespace and one sign are accepted; anything else
\* than digits raises ValueError (ok = FALSE).
ParseInt(s) ==
    LET t == Strip(s)
        signed == t # <<>> /\ (Head(t) = "-" \/ Head(t) = "+")
        d == IF signed THEN Tail(t) ELSE t
    IN  IF IsDigit(d)
        THEN [ok |-> TRUE,
              val |-> IF signed /\ Head(t) = "-" THEN 0 - DigitsValue(d)
                      ELSE DigitsValue(d)]
        ELSE [ok |-> FALSE, val |-> 0]

\* The 4-digit rule of every id prompt: 1000 <= n <= 9999.
InRange(n) == 1000 <= n /\ n <= 9999

\* a faulty variant: the first character is not checked
TextCheck_NoAlpha(s) ==
    IF s = <<>> THEN "blank"
    ELSE IF IsDigit(LStripMinus(s)) THEN "numeric"
    ELSE "ok"

\* The three checks applied to an author's name or country (already
\* stripped): "ok", or the check that rejected it.
TextCheck(s) ==
    IF s = <<>> THEN "blank"
    ELSE IF ~IsAlphaChar(s[1]) THEN "not_alpha"
    ELSE IF IsDigit(LStripMinus(s)) THEN "numeric"
    ELSE "ok"

-----------------------------------------------------------------------------
(* Seed data (data_sets).                                                  *)

BookRow(t, a, q) == [title |-> t, authorID |-> a, qty |-> q]

AuthorRow(n, c) == [name |-> n, country |-> c]

England == <<"E","n","g","l","a","n","d">>

book_data ==
    (3001 :> BookRow(<<"A"," ","T","a","l","e"," ","o","f"," ","T","w","o"," ","C","i","t","i","e","s">>, 1290, 30))
 @@ (3002 :> BookRow(<<"H","a","r","r","y"," ","P","o","t","t","e","r"," ","a","n","d"," ","t","h","e"," ","P","h","i","l","o","s","o","p","h","e","r","'","s"," ","S","t","o","n","e">>, 8937, 40))
 @@ (3003 :> BookRow(<<"T","h","e"," ","L","i","o","n",","," ","t","h","e"," ","W","i","t","c","h"," ","a","n","d"," ","t","h","e"," ","W","a","r","d","r","o","b","e">>, 2356, 25))
 @@ (3004 :> BookRow(<<"T","h","e"," ","L","o","r","d"," ","o","f"," ","t","h","e"," ","R","i","n","g","s">>, 6380, 37))
 @@ (3005 :> BookRow(<<"A","l","i","c","e","'","s"," ","A","d","v","e","n","t","u","r","e","s"," ","i","n"," ","W","o","n","d","e","r","l","a","n","d">>, 5620, 12))

author_data ==
    (1290 :> AuthorRow(<<"C","h","a","r","l","e","s"," ","D","i","c","k","e","n","s">>, England))
 @@ (8937 :> AuthorRow(<<"J",".","K"," ","R","o","w","l","i","n","g">>, England))
 @@ (2356 :> AuthorRow(<<"C",".","S"," ","L","e","w","i","s">>, <<"I","r","e","l","a","n","d">>))
 @@ (6380 :> AuthorRow(<<"J",".","R",".","R"," ","T","o","l","k","i","e","n">>, <<"S","o","u","t","h"," ","A","f","r","i","c","a">>))
 @@ (5620 :> AuthorRow(<<"L","e","w","i","s"," ","C","a","r","r","o","l","l">>, England))

-----------------------------------------------------------------------------
(* What the user may type at each kind of prompt.                          *)

\* main menu: the six choices, a number out of range, a non-number
MenuInputs ==
    { <<"0">>, <<"1">>, <<"2">>, <<"3">>, <<"4">>, <<"5">>, <<"9">>, <<"m">> }

\* book id prompts: the boundary values 999, 1000, 9999, 10000, a seeded
\* book, a zero-padded number and a non-number
BookIdInputs ==
    { <<"9","9","9">>, <<"1","0","0","0">>, <<"9","9","9","9">>,
      <<"1","0","0","0","0">>, <<"3","0","0","1">>, <<"0","9","9","9">>,
      <<"a","b","c">> }

\* author id prompts: 999 (out of range), 1000 (in range, not seeded), a
\* seeded author (8937, who is not the author of book 3001) and a non-number
AuthorIdInputs ==
    { <<"9","9","9">>, <<"1","0","0","0">>,
      <<"8","9","3","7">>, <<"a","b","c">> }

\* the new-authorID prompt of update_book: 999, the seeded author and a
\* non-number
NewAuthorIdInputs == AuthorIdInputs \ { <<"1","0","0","0">> }

\* quantity prompts
QtyInputs == { <<"0">>, <<"7">>, <<"-","1">>, <<"x">> }

\* title prompts: empty, blank, a title, the same title padded with a blank
TitleInputs == { <<>>, <<" ">>, <<"X">>, <<" ","X">> }

\* author name and country prompts
TextInputs == { <<>>, <<" ">>, <<"1","a">>, <<"A","l">>, <<" ","A","l"," ">> }

\* the y/n prompt of the inline author creation
YesNoInputs == { <<"y">>, <<"n">>, <<"Y"," ">>, <<"q">> }

\* the sub-menu of update_book
SubMenuInputs ==
    { <<"t">>, <<"a">>, <<"a","n">>, <<"a","c">>, <<"r">>, <<" ","R">>, <<"z">> }

-----------------------------------------------------------------------------
(* Messages printed by the program (variable parts left out).              *)

MsgDbFault       == "The following database error occurred: storage fault"
MsgDbUnique      == "The following database error occurred: UNIQUE constraint failed"
MsgDbNoTable     == "The following database error occurred: no such table"
MsgMenuInvalid   == "Invalid. Please enter a number from 0 - 5"
MsgMenuRange     == "Invalid input. Please enter a number between 0 and 5"
MsgGoodbye       == "Goodbye!"
MsgIdRange       == "Please enter a positive, 4 digit number"
MsgIdInvalid     == "Invalid input. Please enter a positive, 4 digit number."
MsgTitleBlank    == "The title cannot be blank."
MsgAuthorRange   == "The author id must be a positive, 4 digit number."
MsgNoAuthor      == "The author ID does not exist."
MsgFieldBlank    == "This field cannot be blank."
MsgStartLetter   == "should start with a letter."
MsgNotNumbers    == "cannot consist of numbers."
MsgAuthorAdded   == "The author was added successfully."
MsgYesNo         == "Please enter 'y' or 'n'"
MsgQtyNegative   == "Quantity cannot be negative."
MsgQtyInvalid    == "Invalid input. Please enter a positive number"
MsgBookAdded     == "The book has been added to the database"
MsgDuplicate     == "The book id already exists in the database."
MsgNoBooks       == "There are no books currently."
MsgNoBookFound   == "There was no book found with that ID. Please try again."
MsgQtyUpdated    == "The quantity was successfully added."
MsgTitleExists   == "The title already exists. Please enter a new title."
MsgTitleUpdated  == "The title was successfully updated."
MsgAuthorIdNaN   == "Please enter a 4 digit numeric author ID."
MsgAuthorIdSet   == "The author ID has been successfully updated."
MsgNameUpdated   == "The author's name has been updated successfully."
MsgCountrySet    == "The country has been successfully updated."
MsgSubMenu       == "Please enter one of the options: 't', 'a', 'r' "
MsgNoneToDelete  == "There are no current books to delete."
MsgNotFound      == "The book with id was not found."
MsgDeleted       == "The book with id has been deleted."
MsgNoBooksForId  == "There are no books for id"

\* The text of the message for a rejected name or country.
TextMsg(check) ==
    CASE check = "blank"     -> MsgFieldBlank
      [] check = "not_alpha" -> MsgStartLetter
      [] OTHER               -> MsgNotNumbers

-----------------------------------------------------------------------------
(* The store: SQL statements as operators on the two tables.               *)

EmptyTable == <<>>

RECURSIVE SortedIds(_)
SortedIds(S) ==
    IF S = {} THEN <<>>
    ELSE LET m == CHOOSE x \in S : \A y \in S : x <= y
         IN  <<m>> \o SortedIds(S \ {m})

\* a faulty variant: the table is dropped and created again
CreateTableIfNotExists_Recreate(exists, table) == EmptyTable

\* CREATE TABLE IF NOT EXISTS: a table that exists is left alone with its rows
CreateTableIfNotExists(exists, table) == IF exists THEN table ELSE EmptyTable

\* a faulty variant: the WHERE clause is lost
SelectBook_NoWhere(b, id) ==
    { <<i, b[i].title, b[i].authorID, b[i].qty>> : i \in DOMAIN b }

\* a faulty variant: fetchone() of a query that lost its WHERE clause
SelectBook_First(b, id) ==
    IF b = EmptyTable THEN {}
    ELSE LET m == CHOOSE x \in DOMAIN b : \A y \in DOMAIN b : x <= y
         IN  { <<m, b[m].title, b[m].authorID, b[m].qty>> }

\* SELECT * FROM book WHERE id = ?   (a set of at most one row)
SelectBook(b, id) ==
    IF id \in DOMAIN b
    THEN { <<id, b[id].title, b[id].authorID, b[id].qty>> }
    ELSE {}

\* SELECT * FROM book
SelectAllBooks(b) ==
    LET ids == SortedIds(DOMAIN b)
    IN  [i \in 1..Len(ids) |->
            <<ids[i], b[ids[i]].title, b[ids[i]].authorID, b[ids[i]].qty>>]

\* a faulty variant: the lookup takes every author id as present
AuthorExists_Always(a, id) == TRUE

\* SELECT id FROM author WHERE id = ?   (fetchone() is not None)
AuthorExists(a, id) == id \in DOMAIN a

\* SELECT book.*, author.name, author.country FROM book INNER JOIN author
\* ON book.authorID = author.id WHERE book.id = ?
SelectJoined(b, a, id) ==
    IF id \in DOMAIN b /\ b[id].authorID \in DOMAIN a
    THEN { <<id, b[id].title, b[id].authorID, b[id].qty,
             a[b[id].authorID].name, a[b[id].authorID].country>> }
    ELSE {}

\* a faulty variant: fetchone() in place of fetchall()
SelectDetails_FetchOne(b, a) ==
    LET ids == SortedIds({i \in DOMAIN b : b[i].authorID \in DOMAIN a})
    IN  [i \in 1..(IF ids = <<>> THEN 0 ELSE 1) |->
            <<b[ids[i]].title, a[b[ids[i]].authorID].name,
              a[b[ids[i]].authorID].country>>]

\* SELECT book.title, author.name, author.country FROM book INNER JOIN author
SelectDetails(b, a) ==
    LET ids == SortedIds({i \in DOMAIN b : b[i].authorID \in DOMAIN a})
    IN  [i \in 1..Len(ids) |->
            <<b[ids[i]].title, a[b[ids[i]].authorID].name,
              a[b[ids[i]].authorID].country>>]

\* a faulty variant: INSERT OR REPLACE, which no key rejects
InsertBookOk_Always(b, id) == TRUE

\* a faulty variant: the qty column is left at a default of 0
InsertBook_NoQty(b, id, t, a, q) == (id :> BookRow(t, a, 0)) @@ b

\* a faulty variant: the authorID and qty columns are bound the wrong way round
InsertBook_Swapped(b, id, t, a, q) == (id :> BookRow(t, q, a)) @@ b

\* INSERT INTO book: the primary key rejects an id already in the table
InsertBookOk(b, id) == id \notin DOMAIN b

InsertBook(b, id, t, a, q) == (id :> BookRow(t, a, q)) @@ b

\* a faulty variant: the country is not bound to its column
InsertAuthor_NoCountry(a, id, n, c) == (id :> AuthorRow(n, <<>>)) @@ a

\* INSERT INTO author
InsertAuthorOk(a, id) == id \notin DOMAIN a

InsertAuthor(a, id, n, c) == (id :> AuthorRow(n, c)) @@ a

\* a faulty variant: the table is emptied before the seed rows are inserted
ReplaceRows_Truncating(table, rows) == rows

\* a faulty variant: INSERT OR IGNORE, which keeps a row already stored
ReplaceRows_Ignore(table, rows) == table @@ rows

\* INSERT OR REPLACE of the seed rows
ReplaceRows(table, rows) == rows @@ table

\* a faulty variant: the quantity update is never applied
UpdateQty_Skipped(b, id, q) == b

\* a faulty variant: UPDATE book SET qty without its WHERE clause
UpdateQty_NoWhere(b, id, q) == [i \in DOMAIN b |-> [b[i] EXCEPT !.qty = q]]

\* UPDATE book SET qty = ? WHERE id = ?
UpdateQty(b, id, q) ==
    IF id \in DOMAIN b THEN [b EXCEPT ![id].qty = q] ELSE b

\* a faulty variant: the title update is never applied
UpdateTitle_Skipped(b, id, t) == b

\* UPDATE book SET title = ? WHERE ID = ?
UpdateTitle(b, id, t) ==
    IF id \in DOMAIN b THEN [b EXCEPT ![id].title = t] ELSE b

\* a faulty variant: UPDATE book SET authorID without its WHERE clause
UpdateAuthorID_NoWhere(b, id, a) == [i \in DOMAIN b |-> [b[i] EXCEPT !.authorID = a]]

\* UPDATE book SET authorID = ? WHERE id = ?
UpdateAuthorID(b, id, a) ==
    IF id \in DOMAIN b THEN [b EXCEPT ![id].authorID = a] ELSE b

\* a faulty variant: UPDATE author SET name without its WHERE clause
UpdateName_NoWhere(a, id, n) == [i \in DOMAIN a |-> [a[i] EXCEPT !.name = n]]

\* UPDATE author SET name = ? WHERE id = ?
UpdateName(a, id, n) ==
    IF id \in DOMAIN a THEN [a EXCEPT ![id].name = n] ELSE a

\* UPDATE author SET country = ? WHERE id = ?
UpdateCountry(a, id, c) ==
    IF id \in DOMAIN a THEN [a EXCEPT ![id].country = c] ELSE a

\* a faulty variant: the DELETE matches no row
DeleteBook_Skipped(b, id) == b

\* a faulty variant: DELETE FROM book without its WHERE clause
DeleteBook_NoWhere(b, id) == EmptyTable

\* DELETE FROM book WHERE id = ?
DeleteBook(b, id) == [i \in DOMAIN b \ {id} |-> b[i]]

(* db_connection: the ways one storage scope can end.                      *)
(*   "none"    the statements run and, with commit, are committed          *)
(*   "execute" a statement raises sqlite3.Error: the scope rolls back,     *)
(*             prints the error and SUPPRESSES it (the generator returns   *)
(*             after catching it), so the rest of the with-body is skipped *)
(*             and control continues after the with-statement              *)
(*   "commit"  the body ran to its end, conn.commit() raises: nothing is   *)
(*             persisted, the error is printed, control continues          *)
(*   "connect" sqlite3.connect raises: the generator never yields and      *)
(*             contextlib raises RuntimeError, which nothing catches       *)
(* Without the tables every statement raises ("no such table").            *)
ScopeOutcomes(commit) ==
    (IF schema THEN {"none"} ELSE {"execute"})
    \cup (IF faults
          THEN {"execute", "connect"} \cup (IF commit THEN {"commit"} ELSE {})
          ELSE {})

\* the line db_connection prints for a statement that raised
ErrorMsg == IF schema THEN MsgDbFault ELSE MsgDbNoTable

\* the model explores the inline creation of at most MaxAuthors authors
MayCreateAuthor == Cardinality(DOMAIN author \ DOMAIN author_data) < MaxAuthors

-----------------------------------------------------------------------------
(* Initial state: the program has just been launched on a machine with no  *)
(* ebookstore.db.                                                          *)

NoLocals ==
    /\ book_id' = 0
    /\ title' = <<>>
    /\ typed_title' = <<>>
    /\ author_id' = 0
    /\ name' = <<>>
    /\ inline' = FALSE
    /\ id_chosen' = <<>>
    /\ book_chosen' = <<>>
    /\ update_qty' = 0
    /\ new_author_id' = 0
    /\ title_match' = "unbound"
    /\ fetched' = "unbound"

InitCommon ==
    /\ pc = "start"
    /\ schema = FALSE
    /\ book = EmptyTable
    /\ author = EmptyTable
    /\ book_id = 0
    /\ title = <<>>
    /\ typed_title = <<>>
    /\ author_id = 0
    /\ name = <<>>
    /\ inline = FALSE
    /\ id_chosen = <<>>
    /\ book_chosen = <<>>
    /\ update_qty = 0
    /\ new_author_id = 0
    /\ title_match = "unbound"
    /\ fetched = "unbound"
    /\ out = <<>>
    /\ acc = <<>>
    /\ shown = <<>>
    /\ last = "launch"
    /\ before = <<>>
    /\ added = {}
    /\ ops = 0

Init == InitCommon /\ faults = FALSE

\* an uncaught exception: the traceback ends the process
Crash(msgs, stmts) ==
    /\ pc' = "crashed"
    /\ out' = msgs
    /\ acc' = stmts
    /\ shown' = <<>>
    /\ NoLocals
    /\ UNCHANGED << schema, book, author, ops, faults >>

-----------------------------------------------------------------------------
(* run_system: create_table(), data_sets(), menu().                        *)

create_table ==
    /\ pc = "start"
    /\ \E f \in {"none"} \cup (IF faults THEN {"execute", "connect", "commit"} ELSE {}) :
          IF f = "connect"
          THEN Crash(<<MsgDbFault>>, <<>>)
          ELSE /\ pc' = "seed"
               /\ schema' = (schema \/ f = "none")
               /\ out' = IF f = "none" THEN <<>> ELSE <<MsgDbFault>>
               /\ book' = IF f = "none" THEN CreateTableIfNotExists(schema, book)
                          ELSE book
               /\ author' = IF f = "none"
                            THEN CreateTableIfNotExists(schema, author)
                            ELSE author
               /\ acc' = << <<"create_book", 0>>, <<"create_author", 0>> >>
               /\ shown' = <<>>
               /\ UNCHANGED << locals, ops, faults >>

data_sets ==
    /\ pc = "seed"
    /\ \E f \in ScopeOutcomes(TRUE) :
          IF f = "connect"
          THEN Crash(<<MsgDbFault>>, <<>>)
          ELSE /\ pc' = "menu"
               /\ book' = IF f = "none" THEN ReplaceRows(book, book_data) ELSE book
               /\ author' = IF f = "none" THEN ReplaceRows(author, author_data) ELSE author
               /\ out' = IF f = "none" THEN <<>> ELSE <<ErrorMsg>>
               /\ acc' = << <<"replace_books", 0>>, <<"replace_authors", 0>> >>
               /\ shown' = <<>>
               /\ UNCHANGED << schema, locals, ops, faults >>

\* the user launches the program again after it ended
Restart ==
    /\ pc \in {"exited", "crashed"}
    /\ pc' = "start"
    /\ out' = <<>>
    /\ acc' = <<>>
    /\ shown' = <<>>
    /\ UNCHANGED << schema, book, author, locals, ops, faults >>

-----------------------------------------------------------------------------
(* Shapes of a step.                                                       *)

\* print and prompt again, the store untouched
Stay(msgs) ==
    /\ pc' = pc
    /\ out' = msgs
    /\ acc' = <<>>
    /\ shown' = <<>>
    /\ UNCHANGED << schema, book, author, locals, ops, faults >>

\* move to another prompt, the store untouched
Goto(next, msgs) ==
    /\ pc' = next
    /\ out' = msgs
    /\ acc' = <<>>
    /\ shown' = <<>>
    /\ UNCHANGED << schema, book, author, ops, faults >>

\* the operation returns to menu(), which prompts again
Return(msgs, stmts) ==
    /\ pc' = "menu"
    /\ out' = msgs
    /\ acc' = stmts
    /\ NoLocals
    /\ UNCHANGED << schema, ops, faults >>

-----------------------------------------------------------------------------
(* menu(), lines 144-200: the answer s to the menu prompt.                 *)

\* the choice typed, or -1 for what menu() rejects
MenuChoice(s) ==
    LET n == ParseInt(s)
    IN  IF n.ok /\ ~(n.val < 0 \/ n.val > 5) THEN n.val ELSE -1

MenuInvalid(s) ==
    /\ pc = "menu"
    /\ MenuChoice(s) = -1
    /\ Stay(IF ParseInt(s).ok THEN <<MsgMenuRange>> ELSE <<MsgMenuInvalid>>)

MenuEnterBook(s) ==
    /\ pc = "menu"
    /\ MenuChoice(s) = 1
    /\ ops < MaxOps
    /\ ops' = ops + 1
    /\ pc' = "ab_id"
    /\ out' = <<>>
    /\ acc' = <<>>
    /\ shown' = <<>>
    /\ UNCHANGED << schema, book, author, locals, faults >>

\* update_book() up to its first prompt (lines 409-431): list the books
MenuUpdateBook(s) ==
    /\ pc = "menu"
    /\ MenuChoice(s) = 2
    /\ ops < MaxOps
    /\ \E f \in ScopeOutcomes(TRUE) :
          IF f \in {"execute", "connect"}
          THEN \* book_list is never bound: UnboundLocalError at line 423
               Crash(<<ErrorMsg>>, << <<"select_books", 0>> >>)
          ELSE LET err == IF f = "commit" THEN <<MsgDbFault>> ELSE <<>>
               IN
               /\ ops' = ops + 1
               /\ acc' = << <<"select_books", 0>> >>
               /\ shown' = <<>>
               /\ UNCHANGED << schema, book, author, locals, faults >>
               /\ IF SelectAllBooks(book) = <<>>
                  THEN pc' = "menu" /\ out' = err \o <<MsgNoBooks>>
                  ELSE pc' = "ub_id" /\ out' = err

\* delete() up to its first prompt (lines 865-888): list the books
MenuDelete(s) ==
    /\ pc = "menu"
    /\ MenuChoice(s) = 3
    /\ \E f \in ScopeOutcomes(FALSE) :
          IF f # "none"
          THEN \* book_list is never bound: UnboundLocalError at line 880
               Crash(<<ErrorMsg>>, << <<"select_books", 0>> >>)
          ELSE /\ acc' = << <<"select_books", 0>> >>
               /\ shown' = <<>>
               /\ UNCHANGED << schema, book, author, locals, ops, faults >>
               /\ IF SelectAllBooks(book) = <<>>
                  THEN pc' = "menu" /\ out' = <<MsgNoneToDelete>>
                  ELSE pc' = "del_id" /\ out' = <<>>

MenuSearch(s) ==
    /\ pc = "menu"
    /\ MenuChoice(s) = 4
    /\ Goto("se_id", <<>>)
    /\ UNCHANGED locals

\* view_details(), lines 1006-1037: the whole operation, it prompts for nothing
view_details(s) ==
    /\ pc = "menu"
    /\ MenuChoice(s) = 5
    /\ \E f \in ScopeOutcomes(FALSE) :
          IF f # "none"
          THEN \* book_details is never bound: UnboundLocalError at line 1033
               Crash(<<ErrorMsg>>, << <<"select_details", 0>> >>)
          ELSE /\ Return(<<>>, << <<"select_details", 0>> >>)
               /\ shown' = SelectDetails(book, author)
               /\ UNCHANGED << book, author >>

MenuExit(s) ==
    /\ pc = "menu"
    /\ MenuChoice(s) = 0
    /\ Goto("exited", <<MsgGoodbye>>)
    /\ UNCHANGED locals

-----------------------------------------------------------------------------
(* enter_book(): AddBook.  Each step takes the text s typed at its prompt. *)

\* lines 212-227: the book id prompt
EnterBookId(s) ==
    /\ pc = "ab_id"
    /\ LET n == ParseInt(s)
       IN  IF ~n.ok THEN Stay(<<MsgIdInvalid>>)
           ELSE IF n.val < 1000 \/ n.val > 9999 THEN Stay(<<MsgIdRange>>)
           ELSE /\ Goto("ab_title", <<>>)
                /\ book_id' = n.val
                /\ UNCHANGED << title, typed_title, author_id, name, inline,
                                ub_locals >>

\* lines 232-242: the title prompt
EnterBookTitle(s) ==
    /\ pc = "ab_title"
    /\ IF Strip(s) = <<>> THEN Stay(<<MsgTitleBlank>>)
       ELSE /\ Goto("ab_author", <<>>)
            /\ title' = Strip(s)
            /\ typed_title' = s
            /\ UNCHANGED << book_id, author_id, name, inline, ub_locals >>

\* lines 247-279: the author id prompt and the existence check
EnterBookAuthor(s) ==
    /\ pc = "ab_author"
    /\ LET n == ParseInt(s)
       IN  IF ~n.ok THEN Stay(<<MsgIdInvalid>>)
           ELSE IF n.val < 1000 \/ n.val > 9999 THEN Stay(<<MsgAuthorRange>>)
           ELSE \E f \in ScopeOutcomes(FALSE) :
                  IF f = "connect" THEN Crash(<<MsgDbFault>>, <<>>)
                  ELSE /\ author_id' = n.val
                       /\ acc' = << <<"select_author", n.val>> >>
                       /\ shown' = <<>>
                       /\ UNCHANGED << schema, book, author, ops, faults, book_id,
                                       title, typed_title, name, inline,
                                       ub_locals >>
                       /\ IF f = "execute"
                          THEN \* the error is suppressed: on to the quantity
                               pc' = "ab_qty" /\ out' = <<ErrorMsg>>
                          ELSE IF AuthorExists(author, n.val)
                          THEN pc' = "ab_qty" /\ out' = <<>>
                          ELSE pc' = "ab_yn" /\ out' = <<MsgNoAuthor>>

\* lines 281-287, 352-358: "Would you like to add the author? (y/n)"
\* a faulty variant: "n" goes on to the quantity prompt instead of returning
EnterBookYesNo_NoAbort(s) ==
    /\ pc = "ab_yn"
    /\ LET new_auth == Lower(Strip(s))
       IN  IF new_auth = <<"y">> THEN Goto("ab_name", <<>>) /\ UNCHANGED locals
           ELSE IF new_auth = <<"n">>
           THEN Goto("ab_qty", <<>>) /\ UNCHANGED locals
           ELSE Stay(<<MsgYesNo>>)

EnterBookYesNo(s) ==
    /\ pc = "ab_yn"
    /\ LET new_auth == Lower(Strip(s))
       IN  IF new_auth = <<"y">> THEN Goto("ab_name", <<>>) /\ UNCHANGED locals
           ELSE IF new_auth = <<"n">>
           THEN Return(<<>>, <<>>) /\ shown' = <<>> /\ UNCHANGED << book, author >>
           ELSE Stay(<<MsgYesNo>>)

\* lines 288-310: the author's name; a rejected name leads back to y/n
EnterBookAuthorName(s) ==
    /\ pc = "ab_name"
    /\ IF TextCheck(Strip(s)) # "ok"
       THEN Goto("ab_yn", <<TextMsg(TextCheck(Strip(s)))>>) /\ UNCHANGED locals
       ELSE /\ Goto("ab_country", <<>>)
            /\ name' = Strip(s)
            /\ UNCHANGED << book_id, title, typed_title, author_id, inline,
                            ub_locals >>

\* lines 312-350: the author's country and the insert of the author
EnterBookAuthorCountry(s) ==
    /\ pc = "ab_country"
    /\ (TextCheck(Strip(s)) = "ok" => MayCreateAuthor)
    /\ IF TextCheck(Strip(s)) # "ok"
       THEN Goto("ab_yn", <<TextMsg(TextCheck(Strip(s)))>>) /\ UNCHANGED locals
       ELSE \E f \in ScopeOutcomes(TRUE) :
              IF f = "connect" THEN Crash(<<MsgDbFault>>, <<>>)
              ELSE LET ok == f # "execute" /\ InsertAuthorOk(author, author_id)
                   IN
                   /\ acc' = << <<"insert_author", author_id>> >>
                   /\ shown' = <<>>
                   /\ author' = IF ok /\ f = "none"
                                THEN InsertAuthor(author, author_id, name, Strip(s))
                                ELSE author
                   /\ inline' = (ok /\ f = "none")
                   \* a failed insert skips the break: back to the y/n prompt
                   /\ pc' = IF ok THEN "ab_qty" ELSE "ab_yn"
                   /\ out' = IF ~ok
                             THEN <<IF f = "execute" THEN ErrorMsg ELSE MsgDbUnique>>
                             ELSE IF f = "commit" THEN <<MsgAuthorAdded, MsgDbFault>>
                             ELSE <<MsgAuthorAdded>>
                   /\ UNCHANGED << schema, book, ops, faults, book_id, title,
                                   typed_title, author_id, name, ub_locals >>

\* a faulty variant: one transaction for the author and the book, so that a
\* rejected book insert also undoes the insert of the author
EnterBookQty_Atomic(s) ==
    /\ pc = "ab_qty"
    /\ LET n == ParseInt(s)
       IN  IF ~n.ok THEN Stay(<<MsgQtyInvalid>>)
           ELSE IF n.val < 0 THEN Stay(<<MsgQtyNegative>>)
           ELSE LET ok == InsertBookOk(book, book_id)
                IN  /\ Return(IF ok THEN <<MsgBookAdded>> ELSE <<MsgDbUnique>>,
                              << <<"insert_book", book_id>> >>)
                    /\ shown' = <<>>
                    /\ book' = IF ok
                               THEN InsertBook(book, book_id, title, author_id, n.val)
                               ELSE book
                    /\ author' = IF ~ok /\ inline
                                 THEN [a \in DOMAIN author \ {author_id} |-> author[a]]
                                 ELSE author

\* lines 367-401: the quantity prompt and the insert of the book.  An insert
\* that raises (a duplicate id included) is reported by db_connection, which
\* suppresses it: the handlers of lines 396-401 never run.
EnterBookQty(s) ==
    /\ pc = "ab_qty"
    /\ LET n == ParseInt(s)
       IN  IF ~n.ok THEN Stay(<<MsgQtyInvalid>>)
           ELSE IF n.val < 0 THEN Stay(<<MsgQtyNegative>>)
           ELSE \E f \in ScopeOutcomes(TRUE) :
                  IF f = "connect" THEN Crash(<<MsgDbFault>>, <<>>)
                  ELSE LET ok == f # "execute" /\ InsertBookOk(book, book_id)
                       IN
                       /\ Return(IF ~ok
                                 THEN <<IF f = "execute" THEN ErrorMsg ELSE MsgDbUnique>>
                                 ELSE IF f = "commit" THEN <<MsgBookAdded, MsgDbFault>>
                                 ELSE <<MsgBookAdded>>,
                                 << <<"insert_book", book_id>> >>)
                       /\ shown' = <<>>
                       /\ book' = IF ok /\ f = "none"
                                  THEN InsertBook(book, book_id, title, author_id, n.val)
                                  ELSE book
                       /\ UNCHANGED author

-----------------------------------------------------------------------------
(* delete(): DeleteBook.                                                   *)

\* lines 891-939: the id prompt, the lookup and the delete
DeleteId(s) ==
    /\ pc = "del_id"
    /\ LET n == ParseInt(Strip(s))
           sel == << <<"select_book", n.val>> >>
           del == << <<"select_book", n.val>>, <<"delete_book", n.val>> >>
           keep == << schema, book, author, ops, faults, book_id, title,
                      typed_title, author_id, name, inline, id_chosen, book_chosen,
                      update_qty, new_author_id, title_match >>
       IN  IF ~n.ok THEN Stay(<<MsgIdInvalid>>)
           ELSE IF ~(1000 <= n.val /\ n.val <= 9999) THEN Stay(<<MsgIdRange>>)
           ELSE \E f1 \in ScopeOutcomes(FALSE) :
             LET \* a lookup that raised leaves book_found as it was
                 found == IF f1 # "none" THEN fetched
                          ELSE IF SelectBook(book, n.val) # {} THEN "row"
                          ELSE "None"
                 err == IF f1 = "none" THEN <<>> ELSE <<ErrorMsg>>
             IN
             IF f1 = "connect" THEN Crash(<<MsgDbFault>>, <<>>)
             ELSE IF found = "unbound" THEN Crash(err, sel)
             ELSE IF found = "None"
             THEN /\ pc' = pc
                  /\ out' = err \o <<MsgNotFound>>
                  /\ acc' = sel
                  /\ shown' = <<>>
                  /\ fetched' = "None"
                  /\ UNCHANGED keep
             ELSE \E f2 \in ScopeOutcomes(TRUE) :
                  IF f2 = "connect" THEN Crash(err \o <<MsgDbFault>>, sel)
                  ELSE IF f2 = "execute"
                  THEN \* the break is skipped: the prompt is issued again
                       /\ pc' = pc
                       /\ out' = err \o <<ErrorMsg>>
                       /\ acc' = del
                       /\ shown' = <<>>
                       /\ fetched' = "row"
                       /\ UNCHANGED keep
                  ELSE /\ Return(err \o (IF f2 = "commit"
                                         THEN <<MsgDeleted, MsgDbFault>>
                                         ELSE <<MsgDeleted>>), del)
                       /\ shown' = <<>>
                       /\ book' = IF f2 = "none" THEN DeleteBook(book, n.val)
                                  ELSE book
                       /\ UNCHANGED author

-----------------------------------------------------------------------------
(* search(): SearchBook.                                                   *)

\* a faulty variant: an id that no book has is asked for again
SearchId_RetryNotFound(s) ==
    /\ pc = "se_id"
    /\ LET n == ParseInt(Strip(s))
       IN  IF ~n.ok THEN Stay(<<MsgIdInvalid>>)
           ELSE IF SelectBook(book, n.val) = {}
           THEN /\ pc' = pc
                /\ out' = <<MsgNoBooksForId>>
                /\ acc' = << <<"select_book", n.val>> >>
                /\ shown' = <<>>
                /\ UNCHANGED << schema, book, author, locals, ops, faults >>
           ELSE /\ Return(<<>>, << <<"select_book", n.val>> >>)
                /\ shown' = << CHOOSE r \in SelectBook(book, n.val) : TRUE >>
                /\ UNCHANGED << book, author >>

\* lines 950-1003: the id prompt and the lookup.  The range check prints
\* its message and falls through to the lookup (there is no continue).
SearchId(s) ==
    /\ pc = "se_id"
    /\ LET n == ParseInt(Strip(s))
           range == IF 1000 <= n.val /\ n.val <= 9999 THEN <<>> ELSE <<MsgIdRange>>
       IN  IF ~n.ok THEN Stay(<<MsgIdInvalid>>)
           ELSE \E f \in ScopeOutcomes(FALSE) :
             IF f = "connect" THEN Crash(range \o <<MsgDbFault>>, <<>>)
             ELSE LET book_found == IF f = "none" THEN SelectBook(book, n.val)
                                    ELSE {}
                  IN
                  /\ Return(range
                            \o (IF f = "none" THEN <<>> ELSE <<ErrorMsg>>)
                            \o (IF book_found = {} THEN <<MsgNoBooksForId>>
                                ELSE <<>>),
                            << <<"select_book", n.val>> >>)
                  /\ shown' = IF book_found = {} THEN <<>>
                              ELSE << CHOOSE r \in book_found : TRUE >>
                  /\ UNCHANGED << book, author >>

-----------------------------------------------------------------------------
(* update_book(): UpdateBook.                                              *)

\* id_chosen is bound to the statements as text; the INTEGER column compares
\* it by its numeric value
SqlInteger(s) == DigitsValue(s)

\* every local of update_book but the ones named in a step
ub_rest == << book_id, title, typed_title, author_id, inline >>

\* lines 436-486: the book id prompt and the joined lookup.  (The rejected
\* text is also left in id_chosen; it is overwritten before any use.)
UpdateBookId(s) ==
    /\ pc = "ub_id"
    /\ IF ~IsDigit(s) \/ Len(s) # 4 THEN Stay(<<MsgIdInvalid>>)
       ELSE \E f \in ScopeOutcomes(FALSE) :
         LET rows == SelectJoined(book, author, SqlInteger(s))
             \* a lookup that raised leaves book_chosen as it was
             found == IF f # "none" THEN fetched
                      ELSE IF rows # {} THEN "row" ELSE "None"
             err == IF f = "none" THEN <<>> ELSE <<ErrorMsg>>
             sel == << <<"select_joined", SqlInteger(s)>> >>
         IN
         IF f = "connect" THEN Crash(<<MsgDbFault>>, <<>>)
         ELSE IF found = "unbound" THEN Crash(err, sel)
         ELSE /\ id_chosen' = s
              /\ fetched' = found
              /\ acc' = sel
              /\ shown' = <<>>
              /\ UNCHANGED << schema, book, author, ops, faults, ub_rest, name,
                              update_qty, new_author_id, title_match >>
              /\ IF found = "None"
                 THEN /\ pc' = pc
                      /\ out' = err \o <<MsgNoBookFound>>
                      /\ book_chosen' = <<>>
                 ELSE /\ pc' = "ub_qty"
                      /\ out' = err
                      /\ book_chosen' = CHOOSE r \in rows : TRUE

\* lines 491-523: the quantity prompt and its unconditional update
UpdateBookQty(s) ==
    /\ pc = "ub_qty"
    /\ LET n == ParseInt(s)
       IN  IF ~n.ok THEN Stay(<<MsgQtyInvalid>>)
           ELSE IF n.val < 0 THEN Stay(<<MsgQtyNegative>>)
           ELSE \E f \in ScopeOutcomes(TRUE) :
                  IF f = "connect" THEN Crash(<<MsgDbFault>>, <<>>)
                  ELSE /\ pc' = "ub_menu"
                       /\ book' = IF f = "none"
                                  THEN UpdateQty(book, SqlInteger(id_chosen), n.val)
                                  ELSE book
                       \* a raised error is suppressed: success is still printed
                       /\ out' = (IF f = "none" THEN <<>> ELSE <<ErrorMsg>>)
                                 \o <<MsgQtyUpdated>>
                       /\ acc' = << <<"update_qty", SqlInteger(id_chosen)>> >>
                       /\ shown' = <<>>
                       /\ update_qty' = n.val
                       /\ UNCHANGED << schema, author, ops, faults, ub_rest, name,
                                       id_chosen, book_chosen, new_author_id,
                                       title_match, fetched >>

\* a faulty variant: a choice that is none of the sub-menu's leaves update_book
UpdateBookMenu_InvalidReturns(s) ==
    /\ pc = "ub_menu"
    /\ LET update_choice == Lower(Strip(s))
       IN  IF update_choice = <<"t">> THEN Goto("ub_title", <<>>) /\ UNCHANGED locals
           ELSE IF update_choice = <<"a">>
           THEN Goto("ub_author", <<>>) /\ UNCHANGED locals
           ELSE IF update_choice = <<"a", "n">>
           THEN Goto("ub_an", <<>>) /\ UNCHANGED locals
           ELSE IF update_choice = <<"a", "c">>
           THEN Goto("ub_ac", <<>>) /\ UNCHANGED locals
           ELSE Return(<<>>, <<>>) /\ shown' = <<>> /\ UNCHANGED << book, author >>

\* lines 526-535, 849-854: the sub-menu
UpdateBookMenu(s) ==
    /\ pc = "ub_menu"
    /\ LET update_choice == Lower(Strip(s))
       IN  IF update_choice = <<"t">> THEN Goto("ub_title", <<>>) /\ UNCHANGED locals
           ELSE IF update_choice = <<"a">>
           THEN Goto("ub_author", <<>>) /\ UNCHANGED locals
           ELSE IF update_choice = <<"a", "n">>
           THEN Goto("ub_an", <<>>) /\ UNCHANGED locals
           ELSE IF update_choice = <<"a", "c">>
           THEN Goto("ub_ac", <<>>) /\ UNCHANGED locals
           ELSE IF update_choice = <<"r">>
           THEN Return(<<>>, <<>>) /\ shown' = <<>> /\ UNCHANGED << book, author >>
           ELSE Stay(<<MsgSubMenu>>)

\* lines 540-591: the title leaf.  The check selects the row with
\* title = new_title AND id = id_chosen, i.e. the chosen book itself when it
\* already carries that title.
UpdateBookTitle(s) ==
    /\ pc = "ub_title"
    /\ IF Strip(s) = <<>> THEN Stay(<<MsgFieldBlank>>)
       ELSE \E f1 \in ScopeOutcomes(FALSE) :
         LET new_title == Strip(s)
             key == SqlInteger(id_chosen)
             \* a check that raised leaves title_match as it was
             match == IF f1 # "none" THEN title_match
                      ELSE IF key \in DOMAIN book /\ book[key].title = new_title
                      THEN "row" ELSE "None"
             err == IF f1 = "none" THEN <<>> ELSE <<ErrorMsg>>
             sel == << <<"select_title", key>> >>
         IN
         IF f1 = "connect" THEN Crash(<<MsgDbFault>>, <<>>)
         ELSE IF match = "unbound" THEN Crash(err, sel)
         ELSE IF match = "row"
         THEN /\ pc' = pc
              /\ out' = err \o <<MsgTitleExists>>
              /\ acc' = sel
              /\ shown' = <<>>
              /\ title_match' = "row"
              /\ UNCHANGED << schema, book, author, ops, faults, ub_rest, name,
                              id_chosen, book_chosen, update_qty, new_author_id,
                              fetched >>
         ELSE \E f2 \in ScopeOutcomes(TRUE) :
              IF f2 = "connect" THEN Crash(err \o <<MsgDbFault>>, sel)
              ELSE /\ pc' = "ub_menu"
                   /\ book' = IF f2 = "none" THEN UpdateTitle(book, key, new_title)
                              ELSE book
                   /\ out' = err \o (IF f2 = "none" THEN <<>> ELSE <<ErrorMsg>>)
                             \o <<MsgTitleUpdated>>
                   /\ acc' = sel \o << <<"update_title", key>> >>
                   /\ shown' = <<>>
                   /\ title_match' = "None"
                   /\ UNCHANGED << schema, author, ops, faults, ub_rest, name,
                                   id_chosen, book_chosen, update_qty,
                                   new_author_id, fetched >>


\* the UPDATE of book.authorID that ends the authorID leaf (lines 740-759),
\* reached with the author table a and the messages msgs printed so far
SetAuthorID(a, new_id, msgs, stmts, f2) ==
    LET key == SqlInteger(id_chosen)
    IN  /\ author' = a
        /\ shown' = <<>>
        /\ UNCHANGED << schema, ops, faults >>
        /\ IF f2 = "connect"
           THEN /\ pc' = "crashed"
                /\ out' = msgs \o <<MsgDbFault>>
                /\ acc' = stmts
                /\ book' = book
                /\ NoLocals
           ELSE /\ pc' = "ub_menu"
                /\ book' = IF f2 = "none"
                           THEN UpdateAuthorID(book, key, new_id)
                           ELSE book
                \* new_author_id is dead from here on (assigned again before
                \* any use)
                /\ new_author_id' = 0
                \* a raised error is suppressed: success is still printed
                /\ out' = msgs \o (IF f2 = "none" THEN <<>> ELSE <<ErrorMsg>>)
                          \o <<MsgAuthorIdSet>>
                /\ acc' = stmts \o << <<"update_authorID", key>> >>
                \* name is dead from here on (assigned again before any use)
                /\ name' = <<>>
                /\ UNCHANGED << ub_rest, id_chosen, book_chosen, update_qty,
                                title_match, fetched >>

\* lines 597-624, 740-763: the authorID leaf.  The range check prints its
\* message and falls through to the lookup (there is no continue).
UpdateBookAuthorId(s) ==
    /\ pc = "ub_author"
    /\ LET n == ParseInt(s)
           range == IF 1000 <= n.val /\ n.val <= 9999 THEN <<>> ELSE <<MsgIdRange>>
           sel == << <<"select_author", n.val>> >>
       IN  IF ~n.ok THEN Stay(<<MsgAuthorIdNaN>>)
           ELSE \E f1 \in ScopeOutcomes(FALSE) :
             IF f1 = "connect" THEN Crash(range \o <<MsgDbFault>>, <<>>)
             ELSE IF f1 = "none" /\ ~AuthorExists(author, n.val)
             THEN /\ pc' = "ub_yn"
                  /\ new_author_id' = n.val
                  /\ out' = range \o <<MsgNoAuthor>>
                  /\ acc' = sel
                  /\ shown' = <<>>
                  /\ UNCHANGED << schema, book, author, ops, faults, ub_rest, name,
                                  id_chosen, book_chosen, update_qty, title_match,
                                  fetched >>
             ELSE \E f2 \in ScopeOutcomes(TRUE) :
                  SetAuthorID(author, n.val,
                              range \o (IF f1 = "none" THEN <<>> ELSE <<ErrorMsg>>),
                              sel, f2)

\* lines 626-637: "Would you like to add the author? (y/n)"; an answer that
\* is neither is asked again without a message
UpdateBookYesNo(s) ==
    /\ pc = "ub_yn"
    /\ LET new_auth == Lower(Strip(s))
       IN  IF new_auth = <<"n">>
           THEN Return(<<>>, <<>>) /\ shown' = <<>> /\ UNCHANGED << book, author >>
           ELSE IF new_auth = <<"y">>
           THEN Goto("ub_new_name", <<>>) /\ UNCHANGED locals
           ELSE Stay(<<>>)

\* lines 640-667: the new author's name; a rejected name leads back to y/n
UpdateBookNewName(s) ==
    /\ pc = "ub_new_name"
    /\ IF TextCheck(Strip(s)) # "ok"
       THEN Goto("ub_yn", <<TextMsg(TextCheck(Strip(s)))>>) /\ UNCHANGED locals
       ELSE /\ Goto("ub_new_country", <<>>)
            /\ name' = Strip(s)
            /\ UNCHANGED << ub_rest, ub_locals >>

\* lines 671-759: the new author's country, the insert of the author and,
\* once it is inserted, the update of book.authorID
UpdateBookNewCountry(s) ==
    /\ pc = "ub_new_country"
    /\ (TextCheck(Strip(s)) = "ok" => MayCreateAuthor)
    /\ IF TextCheck(Strip(s)) # "ok"
       THEN Goto("ub_yn", <<TextMsg(TextCheck(Strip(s)))>>) /\ UNCHANGED locals
       ELSE \E f1 \in ScopeOutcomes(TRUE) :
         LET ok == f1 # "execute" /\ InsertAuthorOk(author, new_author_id)
             ins == << <<"insert_author", new_author_id>> >>
         IN
         IF f1 = "connect" THEN Crash(<<MsgDbFault>>, <<>>)
         ELSE IF ~ok
         THEN \* the break is skipped: back to the y/n prompt
              /\ pc' = "ub_yn"
              /\ out' = <<IF f1 = "execute" THEN ErrorMsg ELSE MsgDbUnique>>
              /\ acc' = ins
              /\ shown' = <<>>
              /\ UNCHANGED << schema, book, author, ops, faults, locals >>
         ELSE \E f2 \in ScopeOutcomes(TRUE) :
              SetAuthorID(IF f1 = "none"
                          THEN InsertAuthor(author, new_author_id, name, Strip(s))
                          ELSE author,
                          new_author_id,
                          IF f1 = "none" THEN <<MsgAuthorAdded>>
                          ELSE <<MsgAuthorAdded, MsgDbFault>>,
                          ins, f2)

\* lines 768-806: the author's-name leaf: the row updated is the one whose
\* id is book_chosen[2], the authorID fetched when the book was chosen
UpdateBookAuthorName(s) ==
    /\ pc = "ub_an"
    /\ IF TextCheck(Strip(s)) # "ok" THEN Stay(<<TextMsg(TextCheck(Strip(s)))>>)
       ELSE \E f \in ScopeOutcomes(TRUE) :
              IF f = "connect" THEN Crash(<<MsgDbFault>>, <<>>)
              ELSE /\ pc' = "ub_menu"
                   /\ author' = IF f = "none"
                                THEN UpdateName(author, book_chosen[3], Strip(s))
                                ELSE author
                   /\ out' = (IF f = "none" THEN <<>> ELSE <<ErrorMsg>>)
                             \o <<MsgNameUpdated>>
                   /\ acc' = << <<"update_name", book_chosen[3]>> >>
                   /\ shown' = <<>>
                   /\ UNCHANGED << schema, book, ops, faults, locals >>

\* lines 810-846: the author's-country leaf
UpdateBookAuthorCountry(s) ==
    /\ pc = "ub_ac"
    /\ IF TextCheck(Strip(s)) # "ok" THEN Stay(<<TextMsg(TextCheck(Strip(s)))>>)
       ELSE \E f \in ScopeOutcomes(TRUE) :
              IF f = "connect" THEN Crash(<<MsgDbFault>>, <<>>)
              ELSE /\ pc' = "ub_menu"
                   /\ author' = IF f = "none"
                                THEN UpdateCountry(author, book_chosen[3], Strip(s))
                                ELSE author
                   /\ out' = (IF f = "none" THEN <<>> ELSE <<ErrorMsg>>)
                             \o <<MsgCountrySet>>
                   /\ acc' = << <<"update_country", book_chosen[3]>> >>
                   /\ shown' = <<>>
                   /\ UNCHANGED << schema, book, ops, faults, locals >>

-----------------------------------------------------------------------------
(* The next-state relation: one action per prompt.                         *)

\* what every step records: its name, and the two tables as they were when
\* the operation under way was chosen from the menu (after data_sets: as they
\* were before the seeding)
RecordStep(step) ==
    /\ last' = step
    /\ before' = IF \/ pc = "menu" /\ pc' \notin {"menu", "exited", "crashed"}
                    \/ pc = "seed" /\ pc' = "menu"
                 THEN << book, author >>
                 ELSE IF pc' \in {"menu", "exited", "crashed", "start", "seed"}
                 THEN <<>>
                 ELSE before

\* the AddBook on record is dropped once its row is written again or deleted,
\* and when an UpdateBook begins
StillAdded ==
    IF pc' = "ub_id" THEN {}
    ELSE { a \in added : a.id \in DOMAIN book' /\ book'[a.id] = book[a.id] }

Record(step) == RecordStep(step) /\ added' = StillAdded

DoMenuInvalid == (\E s \in MenuInputs : MenuInvalid(s)) /\ Record("MenuInvalid")
DoMenuEnterBook == (\E s \in MenuInputs : MenuEnterBook(s)) /\ Record("MenuEnterBook")
DoMenuUpdateBook == (\E s \in MenuInputs : MenuUpdateBook(s)) /\ Record("MenuUpdateBook")
DoMenuDelete == (\E s \in MenuInputs : MenuDelete(s)) /\ Record("MenuDelete")
DoMenuSearch == (\E s \in MenuInputs : MenuSearch(s)) /\ Record("MenuSearch")
DoViewDetails == (\E s \in MenuInputs : view_details(s)) /\ Record("view_details")
DoMenuExit == (\E s \in MenuInputs : MenuExit(s)) /\ Record("MenuExit")
DoEnterBookId == (\E s \in BookIdInputs : EnterBookId(s)) /\ Record("EnterBookId")
DoEnterBookTitle == (\E s \in TitleInputs : EnterBookTitle(s)) /\ Record("EnterBookTitle")
DoEnterBookAuthor == (\E s \in AuthorIdInputs : EnterBookAuthor(s)) /\ Record("EnterBookAuthor")
DoEnterBookYesNo == (\E s \in YesNoInputs : EnterBookYesNo(s)) /\ Record("EnterBookYesNo")
DoEnterBookAuthorName == (\E s \in TextInputs : EnterBookAuthorName(s)) /\ Record("EnterBookAuthorName")
DoEnterBookAuthorCountry == (\E s \in TextInputs : EnterBookAuthorCountry(s)) /\ Record("EnterBookAuthorCountry")
DoEnterBookQty ==
    /\ \E s \in QtyInputs :
          /\ EnterBookQty(s)
          /\ added' = IF book' # book
                      THEN { [id |-> book_id, title |-> typed_title,
                              authorID |-> author_id, qty |-> ParseInt(s).val] }
                      ELSE StillAdded
    /\ RecordStep("EnterBookQty")
DoDeleteId == (\E s \in BookIdInputs : DeleteId(s)) /\ Record("DeleteId")
DoSearchId == (\E s \in BookIdInputs : SearchId(s)) /\ Record("SearchId")
DoUpdateBookId == (\E s \in BookIdInputs : UpdateBookId(s)) /\ Record("UpdateBookId")
DoUpdateBookQty == (\E s \in QtyInputs : UpdateBookQty(s)) /\ Record("UpdateBookQty")
DoUpdateBookMenu == (\E s \in SubMenuInputs : UpdateBookMenu(s)) /\ Record("UpdateBookMenu")
DoUpdateBookTitle == (\E s \in TitleInputs : UpdateBookTitle(s)) /\ Record("UpdateBookTitle")
DoUpdateBookAuthorId == (\E s \in NewAuthorIdInputs : UpdateBookAuthorId(s)) /\ Record("UpdateBookAuthorId")
DoUpdateBookYesNo == (\E s \in YesNoInputs : UpdateBookYesNo(s)) /\ Record("UpdateBookYesNo")
DoUpdateBookNewName == (\E s \in TextInputs : UpdateBookNewName(s)) /\ Record("UpdateBookNewName")
DoUpdateBookNewCountry == (\E s \in TextInputs : UpdateBookNewCountry(s)) /\ Record("UpdateBookNewCountry")
DoUpdateBookAuthorName == (\E s \in TextInputs : UpdateBookAuthorName(s)) /\ Record("UpdateBookAuthorName")
DoUpdateBookAuthorCountry == (\E s \in TextInputs : UpdateBookAuthorCountry(s)) /\ Record("UpdateBookAuthorCountry")
DoCreateTable == create_table /\ Record("create_table")
DoDataSets == data_sets /\ Record("data_sets")
DoRestart == Restart /\ Record("Restart")

Next ==
    \/ DoCreateTable
    \/ DoDataSets
    \/ DoRestart
    \/ DoMenuInvalid
    \/ DoMenuEnterBook
    \/ DoMenuUpdateBook
    \/ DoMenuDelete
    \/ DoMenuSearch
    \/ DoViewDetails
    \/ DoMenuExit
    \/ DoEnterBookId
    \/ DoEnterBookTitle
    \/ DoEnterBookAuthor
    \/ DoEnterBookYesNo
    \/ DoEnterBookAuthorName
    \/ DoEnterBookAuthorCountry
    \/ DoEnterBookQty
    \/ DoDeleteId
    \/ DoSearchId
    \/ DoUpdateBookId
    \/ DoUpdateBookQty
    \/ DoUpdateBookMenu
    \/ DoUpdateBookTitle
    \/ DoUpdateBookAuthorId
    \/ DoUpdateBookYesNo
    \/ DoUpdateBookNewName
    \/ DoUpdateBookNewCountry
    \/ DoUpdateBookAuthorName
    \/ DoUpdateBookAuthorCountry

Spec == Init /\ [][Next]_vars

\* the same program on a store that may raise storage faults
InitFault == InitCommon /\ faults = TRUE

SpecFault == InitFault /\ [][Next]_vars

-----------------------------------------------------------------------------
(* db_connection on its own, lines 18-48: one storage scope that runs one  *)
(* statement on the seeded store, opened with or without commit.           *)

\* statements of the program, with the values they are given here
ScopeStatements ==
    [op : {"select_book", "delete_book"}, id : {3001, 3002, 3003}]
    \cup [op : {"insert_book"}, id : {1000, 3001}]
    \cup [op : {"update_qty"}, id : {3001}]
    \cup [op : {"insert_author"}, id : {1000, 1290}]

\* cursor.execute(stmt): whether it raised, and the tables of the open
\* transaction after it
Execute(stmt, b, a) ==
    IF stmt.op = "insert_book"
    THEN [ok |-> InsertBookOk(b, stmt.id),
          book |-> InsertBook(b, stmt.id, <<"X">>, 1290, 7), author |-> a]
    ELSE IF stmt.op = "insert_author"
    THEN [ok |-> InsertAuthorOk(a, stmt.id), book |-> b,
          author |-> InsertAuthor(a, stmt.id, <<"A","l">>, <<"A","l">>)]
    ELSE IF stmt.op = "update_qty"
    THEN [ok |-> TRUE, book |-> UpdateQty(b, stmt.id, 7), author |-> a]
    ELSE IF stmt.op = "delete_book"
    THEN [ok |-> TRUE, book |-> DeleteBook(b, stmt.id), author |-> a]
    ELSE [ok |-> TRUE, book |-> b, author |-> a]

\* with db_connection(commit) as cursor: cursor.execute(stmt), ending as f.
\* The yield sits inside "with sqlite3.connect(...) as conn", and a sqlite3
\* connection used as a context manager commits the open transaction when
\* its block ends without an exception and rolls it back otherwise: a scope
\* that raised nothing is committed there, whatever the commit flag says.
db_connection(commit, stmt, f) ==
    /\ pc = "scope"
    /\ f \in ScopeOutcomes(commit)
    /\ LET r == Execute(stmt, book, author)
           raised == f # "none" \/ ~r.ok
       IN  /\ book' = IF raised THEN book ELSE r.book
           /\ author' = IF raised THEN author ELSE r.author
           /\ out' = IF f = "none" /\ ~r.ok THEN <<MsgDbUnique>>
                     ELSE IF raised THEN <<ErrorMsg>>
                     ELSE <<>>
           /\ acc' = IF f = "connect" THEN <<>> ELSE << <<stmt.op, stmt.id>> >>
    /\ shown' = <<>>
    /\ UNCHANGED << pc, schema, locals, ops, faults >>

InitScope ==
    /\ InitCommon
    /\ faults = TRUE

\* a caller reaches a with-statement on db_connection
EnterScope ==
    /\ pc = "menu"
    /\ pc' = "scope"
    /\ out' = <<>>
    /\ acc' = <<>>
    /\ shown' = <<>>
    /\ UNCHANGED << schema, book, author, locals, ops, faults >>

DoEnterScope == EnterScope /\ Record("EnterScope")

DoDbConnection ==
    /\ \E commit \in BOOLEAN : \E stmt \in ScopeStatements :
          \E f \in {"none", "execute", "connect", "commit"} :
             db_connection(commit, stmt, f)
    /\ Record("db_connection")

NextScope ==
    \/ DoCreateTable
    \/ DoDataSets
    \/ DoEnterScope
    \/ DoDbConnection

SpecScope == InitScope /\ [][NextScope]_vars

-----------------------------------------------------------------------------
(* The program in the hands of a user who only deletes: started, and        *)
(* started again, with DeleteBook chosen as often as there are books, each  *)
(* of the seed books among the ids typed.                                   *)

\* what is typed at the delete prompt: the answers of every book id prompt
\* and the ids of the other four seed books
DeleteIdInputs ==
    BookIdInputs \cup { <<"3","0","0","2">>, <<"3","0","0","3">>,
                        <<"3","0","0","4">>, <<"3","0","0","5">> }

DoDeleteAnyId == (\E s \in DeleteIdInputs : DeleteId(s)) /\ Record("DeleteId")

NextDelete ==
    \/ DoCreateTable
    \/ DoDataSets
    \/ DoRestart
    \/ DoMenuInvalid
    \/ DoMenuDelete
    \/ DoMenuExit
    \/ DoDeleteAnyId

SpecDelete == Init /\ [][NextDelete]_vars

-----------------------------------------------------------------------------
(* Properties.                                                             *)

\* an id prompt's answer that is an integer in [1000, 9999]
IdAccepted(s) == ParseInt(Strip(s)).ok /\ InRange(ParseInt(Strip(s)).val)

\* an answer to the quantity prompt that is an integer >= 0
QtyAccepted(s) == ParseInt(s).ok /\ ParseInt(s).val >= 0

\* the members of a sequence
Range(seq) == { seq[i] : i \in DOMAIN seq }

\* C1: in every reachable state every book row's authorID is the id of a row
\* of the author table.
C1_BookAuthorExists ==
    \A b \in DOMAIN book : book[b].authorID \in DOMAIN author

\* a book refers to an author that was created inline, not seeded
C1_Witness ==
    /\ pc = "menu"
    /\ \E b \in DOMAIN book :
          /\ book[b].authorID \notin DOMAIN author_data
          /\ book[b].authorID \in DOMAIN author

\* C2 (as the code has it): AddBook with an unused bookID, a non-blank title,
\* an authorID that was already in the author table and a quantity >= 0 adds
\* exactly one row, under that bookID, holding the typed title with its leading
\* and trailing whitespace removed, that authorID and that quantity.
C2_AddBookStoresStrippedTitle ==
    [][\A s \in QtyInputs :
         (EnterBookQty(s) /\ QtyAccepted(s) /\ ~inline
                          /\ book_id \notin DOMAIN book)
         => /\ DOMAIN book' = DOMAIN book \cup {book_id}
            /\ book'[book_id] = [title |-> Strip(typed_title),
                                 authorID |-> author_id,
                                 qty |-> ParseInt(s).val]]_vars

\* C2 as stated: the row holds exactly the title that was supplied.
C2_AddBookStoresTypedTitle ==
    [][\A s \in QtyInputs :
         (EnterBookQty(s) /\ QtyAccepted(s) /\ ~inline
                          /\ book_id \notin DOMAIN book)
         => /\ book_id \in DOMAIN book'
            /\ book'[book_id] = [title |-> typed_title,
                                 authorID |-> author_id,
                                 qty |-> ParseInt(s).val]]_vars

\* AddBook has just added a book under an author of the seed data
C2_Witness ==
    /\ pc = "menu"
    /\ last = "EnterBookQty"
    /\ out = <<MsgBookAdded>>
    /\ \E b \in DOMAIN book \ DOMAIN book_data :
          /\ book[b].authorID \in DOMAIN author_data
          /\ book[b].title = <<"X">>

\* C3: AddBook whose bookID is already in the book table leaves every book
\* row as it was and returns to the menu after its one insert.
C3_DuplicateLeavesRows ==
    [][\A s \in QtyInputs :
         (EnterBookQty(s) /\ QtyAccepted(s) /\ book_id \in DOMAIN book)
         => /\ book' = book
            /\ pc' = "menu"
            /\ acc' = << <<"insert_book", book_id>> >>]_vars

\* AddBook has just returned from an insert that the primary key rejected
C3_Witness ==
    /\ pc = "menu"
    /\ last = "EnterBookQty"
    /\ acc = << <<"insert_book", 3001>> >>
    /\ MsgBookAdded \notin Range(out)
    /\ book[3001] = book_data[3001]

\* C4 as stated: a rejected duplicate bookID is reported with the line "The
\* book id already exists in the database.", not with the line db_connection
\* prints for a storage error.
C4_DuplicateReportedSpecifically ==
    [][\A s \in QtyInputs :
         (EnterBookQty(s) /\ QtyAccepted(s) /\ book_id \in DOMAIN book)
         => /\ MsgDuplicate \in Range(out')
            /\ MsgDbUnique \notin Range(out')]_vars

\* C5: "n" at AddBook's inline-creation prompt returns to the menu with both
\* tables as they were when AddBook was chosen.
C5_DeclineCreatesNothing ==
    [][\A s \in YesNoInputs :
         (EnterBookYesNo(s) /\ Lower(Strip(s)) = <<"n">>)
         => /\ pc' = "menu"
            /\ << book', author' >> = before]_vars

\* AddBook has just returned on "n"
C5_Witness ==
    /\ pc = "menu"
    /\ last = "EnterBookYesNo"
    /\ ops = 1

\* the answer s given to any of the six id prompts
IdPromptStep(s) ==
    \/ EnterBookId(s)
    \/ EnterBookAuthor(s)
    \/ UpdateBookId(s)
    \/ UpdateBookAuthorId(s)
    \/ DeleteId(s)
    \/ SearchId(s)

\* C6 as stated: at every id prompt an answer that is not an integer in
\* [1000, 9999] is reported, the same prompt is issued again and no statement
\* is run with it; an answer in the range is not turned away as out of range.
C6_IdPromptsRejectOutOfRange ==
    [][\A s \in BookIdInputs \cup AuthorIdInputs \cup NewAuthorIdInputs :
         IdPromptStep(s)
         => IF IdAccepted(s)
            THEN MsgIdRange \notin Range(out') /\ MsgAuthorRange \notin Range(out')
            ELSE /\ pc' = pc
                 /\ out' # <<>>
                 /\ acc' = <<>>
                 /\ book' = book
                 /\ author' = author]_vars

\* C7 as stated: every author row has an id in [1000, 9999].
C7_AuthorIdsInRange ==
    \A a \in DOMAIN author : InRange(a)

\* the prompts of update_book that follow the quantity update
UpdateBookAfterQty ==
    {"ub_menu", "ub_title", "ub_author", "ub_yn", "ub_new_name",
     "ub_new_country", "ub_an", "ub_ac"}

\* C8: once UpdateBook has taken a quantity >= 0 for an existing book, that
\* book's qty is the entered value at every later prompt of the call and in
\* the state in which the call returns to the menu.
C8_QtyAlwaysApplied ==
    [][/\ pc' \in UpdateBookAfterQty
          => /\ SqlInteger(id_chosen') \in DOMAIN book'
             /\ book'[SqlInteger(id_chosen')].qty = update_qty'
       /\ (pc \in UpdateBookAfterQty /\ pc' = "menu")
          => /\ SqlInteger(id_chosen) \in DOMAIN book'
             /\ book'[SqlInteger(id_chosen)].qty = update_qty]_vars

\* UpdateBook has returned on a declined inline creation, the quantity kept
C8_Witness ==
    /\ pc = "menu"
    /\ last = "UpdateBookYesNo"
    /\ 3001 \in DOMAIN book
    /\ book[3001].qty = 7
    /\ book[3001].authorID = book_data[3001].authorID

\* C9: DeleteBook on the id of a book removes that row and nothing else, in
\* the step that reads the id: the other book rows and the author table are
\* as they were.
C9_DeleteRemovesExactlyOne ==
    [][\A s \in BookIdInputs :
         (DeleteId(s) /\ IdAccepted(s)
                      /\ ParseInt(Strip(s)).val \in DOMAIN book)
         => /\ DOMAIN book' = DOMAIN book \ {ParseInt(Strip(s)).val}
            /\ \A i \in DOMAIN book' : book'[i] = book[i]
            /\ author' = author
            /\ pc' = "menu"]_vars

\* a seeded book has just been deleted, its author and the other books kept
C9_Witness ==
    /\ pc = "menu"
    /\ last = "DeleteId"
    /\ out = <<MsgDeleted>>
    /\ 3001 \notin DOMAIN book
    /\ book_data[3001].authorID \in DOMAIN author
    /\ DOMAIN book_data \ {3001} \subseteq DOMAIN book

\* C10: DeleteBook on an id in [1000, 9999] that no book has leaves both
\* tables unchanged, reports that the book was not found and asks for the id
\* again.
C10_DeleteNotFound ==
    [][\A s \in BookIdInputs :
         (DeleteId(s) /\ IdAccepted(s)
                      /\ ParseInt(Strip(s)).val \notin DOMAIN book)
         => /\ book' = book
            /\ author' = author
            /\ out' = <<MsgNotFound>>
            /\ pc' = "del_id"]_vars

\* the not-found report has just been given and the id prompt is open again
C10_Witness ==
    /\ pc = "del_id"
    /\ last = "DeleteId"
    /\ out = <<MsgNotFound>>
    /\ book # EmptyTable

\* C11: SearchBook on an id reports the one book row stored under that id
\* (id, title, authorID, qty) when there is one and not-found otherwise, never
\* reports more than one row, and leaves both tables as they were.
C11_SearchReturnsTheRow ==
    [][\A s \in BookIdInputs :
         (SearchId(s) /\ ParseInt(Strip(s)).ok)
         => LET id == ParseInt(Strip(s)).val
            IN  /\ book' = book
                /\ author' = author
                /\ Len(shown') <= 1
                /\ IF id \in DOMAIN book
                   THEN /\ shown' = << <<id, book[id].title, book[id].authorID,
                                         book[id].qty>> >>
                        /\ MsgNoBooksForId \notin Range(out')
                   ELSE /\ shown' = <<>>
                        /\ MsgNoBooksForId \in Range(out')]_vars

\* SearchBook has just reported the seeded book 3001
C11_Witness ==
    /\ pc = "menu"
    /\ last = "SearchId"
    /\ 3001 \in DOMAIN book
    /\ shown = << <<3001, book[3001].title, book[3001].authorID,
                    book[3001].qty>> >>

\* C12 (as the code has it): after a successful AddBook of a fresh bookID,
\* SearchBook of that bookID, with no write to that book in between, reports
\* exactly the bookID, the typed title with its leading and trailing
\* whitespace removed, the authorID and the quantity that AddBook was given.
C12_AddThenSearchStripped ==
    [][\A s \in BookIdInputs : \A a \in added :
         (SearchId(s) /\ ParseInt(Strip(s)).ok /\ ParseInt(Strip(s)).val = a.id)
         => shown' = << <<a.id, Strip(a.title), a.authorID, a.qty>> >>]_vars

\* C12 as stated: SearchBook reports exactly the title that AddBook was given.
C12_AddThenSearchTyped ==
    [][\A s \in BookIdInputs : \A a \in added :
         (SearchId(s) /\ ParseInt(Strip(s)).ok /\ ParseInt(Strip(s)).val = a.id)
         => shown' = << <<a.id, a.title, a.authorID, a.qty>> >>]_vars

\* SearchBook has just reported the book that AddBook wrote
C12_Witness ==
    /\ pc = "menu"
    /\ last = "SearchId"
    /\ \E a \in added :
          /\ a.authorID \in DOMAIN author_data
          /\ shown = << <<a.id, Strip(a.title), a.authorID, a.qty>> >>

\* the prompts of the five operations
OperationPrompts ==
    {"ab_id", "ab_title", "ab_author", "ab_yn", "ab_name", "ab_country",
     "ab_qty", "ub_id", "ub_qty", "del_id", "se_id"} \cup UpdateBookAfterQty

\* C13 as stated: a storage fault at any storage access of an operation does
\* not end the process; no step taken at the menu or inside an operation
\* leaves the program terminated by an exception.
C13_FaultNeverTerminates ==
    [][(pc \in OperationPrompts \cup {"menu"}) => (pc' # "crashed")]_vars

\* the lines db_connection prints for a storage error
StorageErrorMsgs == {MsgDbFault, MsgDbUnique, MsgDbNoTable}

\* C14 as stated: a step of an operation in which a storage error is reported
\* abandons the operation: no further prompt of the operation is issued.
C14_FaultAbandonsOperation ==
    [][(pc \in OperationPrompts /\ Range(out') \cap StorageErrorMsgs # {})
       => (pc' \notin OperationPrompts)]_vars

\* C15 as stated: what a storage scope ran is in the store afterwards if and
\* only if the scope was opened with commit and no storage error was raised
\* in it; otherwise both tables are as they were before the scope.
C15_PersistedIffCommit ==
    [][\A commit \in BOOLEAN : \A stmt \in ScopeStatements :
       \A f \in {"none", "execute", "connect", "commit"} :
         db_connection(commit, stmt, f)
         => LET r == Execute(stmt, book, author)
            IN  IF commit /\ f = "none" /\ r.ok
                THEN << book', author' >> = << r.book, r.author >>
                ELSE << book', author' >> = << book, author >>]_vars

\* C16 (as the code has it): in the title leaf a non-blank title that equals
\* the chosen book's current title, once stripped, is turned away with "The
\* title already exists" and asked for again, the book unchanged; every other
\* non-blank title is committed as the book's title and the leaf exits,
\* whatever the titles of the other books.
C16_TitleBlocksOnSameTitle ==
    [][\A s \in TitleInputs :
         (UpdateBookTitle(s) /\ Strip(s) # <<>>)
         => LET key == SqlInteger(id_chosen)
            IN  IF book[key].title = Strip(s)
                THEN /\ pc' = "ub_title"
                     /\ book' = book
                     /\ out' = <<MsgTitleExists>>
                ELSE /\ pc' = "ub_menu"
                     /\ book' = [book EXCEPT ![key].title = Strip(s)]
                     /\ out' = <<MsgTitleUpdated>>]_vars

\* C16 as stated: the existing-title check never blocks; every non-blank
\* title entered is committed and the leaf exits.
C16_TitleNeverBlocks ==
    [][\A s \in TitleInputs :
         (UpdateBookTitle(s) /\ Strip(s) # <<>>)
         => /\ pc' = "ub_menu"
            /\ book'[SqlInteger(id_chosen)].title = Strip(s)]_vars

\* the title leaf has just turned a title away as already existing
C16_Witness ==
    /\ pc = "ub_title"
    /\ last = "UpdateBookTitle"
    /\ out = <<MsgTitleExists>>
    /\ book[SqlInteger(id_chosen)].title = <<"X">>

\* the authorID the chosen book had when UpdateBook was chosen from the menu,
\* which is the one shown with the record
DisplayedAuthor == before[1][SqlInteger(id_chosen)].authorID

\* C17: the author-name and author-country leaves change the name, or the
\* country, of the author row whose id was the book's authorID when the
\* record was shown, and no other author row and no book row, also when the
\* authorID leaf has since pointed the book at another author.
C17_LeavesUpdateDisplayedAuthor ==
    [][/\ \A s \in TextInputs :
            (UpdateBookAuthorName(s) /\ TextCheck(Strip(s)) = "ok")
            => /\ author' = [author EXCEPT ![DisplayedAuthor].name = Strip(s)]
               /\ book' = book
       /\ \A s \in TextInputs :
            (UpdateBookAuthorCountry(s) /\ TextCheck(Strip(s)) = "ok")
            => /\ author' = [author EXCEPT ![DisplayedAuthor].country = Strip(s)]
               /\ book' = book]_vars

\* the name leaf has just renamed the author shown with the record, after
\* the authorID leaf pointed the book at another author, whose name is kept
C17_Witness ==
    /\ pc = "ub_menu"
    /\ last = "UpdateBookAuthorName"
    /\ LET key == SqlInteger(id_chosen)
       IN  /\ book[key].authorID # DisplayedAuthor
           /\ author[DisplayedAuthor].name = <<"A","l">>
           /\ author[book[key].authorID].name # <<"A","l">>

\* C18: the authorID leaf sets the chosen book's authorID to the id entered,
\* an author that exists or that the leaf has just created, changes no other
\* book row, and leaves every author row that was there, the previously
\* referenced one included, in place with its name and country.
C18_AuthorIdLeafRepoints ==
    [][/\ \A s \in NewAuthorIdInputs :
            (UpdateBookAuthorId(s) /\ ParseInt(s).ok
                                   /\ ParseInt(s).val \in DOMAIN author)
            => /\ book' = [book EXCEPT
                             ![SqlInteger(id_chosen)].authorID = ParseInt(s).val]
               /\ author' = author
       /\ \A s \in TextInputs :
            (UpdateBookNewCountry(s) /\ TextCheck(Strip(s)) = "ok")
            => /\ book' = [book EXCEPT
                             ![SqlInteger(id_chosen)].authorID = new_author_id]
               /\ DOMAIN author' = DOMAIN author \cup {new_author_id}
               /\ \A a \in DOMAIN author : author'[a] = author[a]]_vars

\* book 3001 has just been pointed at author 8937; its former author 1290 is
\* still there, unchanged, with no book left that refers to it
C18_Witness ==
    /\ pc = "ub_menu"
    /\ last = "UpdateBookAuthorId"
    /\ book[3001].authorID = 8937
    /\ 1290 \in DOMAIN author
    /\ author[1290] = author_data[1290]
    /\ \A b \in DOMAIN book : book[b].authorID # 1290

\* the choices of the sub-menu that lead somewhere
SubMenuChoices == { <<"t">>, <<"a">>, <<"a","n">>, <<"a","c">>, <<"r">> }

\* the sub-menu's "return" is chosen
ReturnChosen ==
    \E s \in SubMenuInputs : UpdateBookMenu(s) /\ Lower(Strip(s)) = <<"r">>

\* the inline creation of the authorID leaf is declined
CreationDeclined ==
    \E s \in YesNoInputs : UpdateBookYesNo(s) /\ Lower(Strip(s)) = <<"n">>

\* after the quantity is committed: a choice that is none of the sub-menu's
\* is followed by the sub-menu, every write of a leaf is followed by the
\* sub-menu, and no step leads anywhere but to a prompt of UpdateBook or to
\* the main menu
SubMenuRepeats ==
    /\ pc' \in UpdateBookAfterQty \cup {"menu"}
    /\ (book' # book \/ author' # author) => pc' = "ub_menu"
    /\ \A s \in SubMenuInputs :
         (UpdateBookMenu(s) /\ Lower(Strip(s)) \notin SubMenuChoices)
         => pc' = "ub_menu"

\* C19 (as the code has it): once the quantity is committed the sub-menu is
\* offered again after every leaf action and every invalid choice, and
\* UpdateBook returns to the main menu only when "return" is chosen or when
\* the inline author creation of the authorID leaf is declined with "n".
C19_ReturnOrDecline ==
    [][(pc \in UpdateBookAfterQty)
       => /\ SubMenuRepeats
          /\ (pc' = "menu") => (ReturnChosen \/ CreationDeclined)]_vars

\* C19 as stated: UpdateBook returns to the main menu only when "return" is
\* chosen, on every path.
C19_ReturnOnly ==
    [][(pc \in UpdateBookAfterQty)
       => /\ SubMenuRepeats
          /\ (pc' = "menu") => ReturnChosen]_vars

\* UpdateBook is back at the main menu because the inline creation was
\* declined, the sub-menu's "return" never chosen
C19_Witness ==
    /\ pc = "menu"
    /\ last = "UpdateBookYesNo"
    /\ out = <<>>
    /\ acc = <<>>

\* the prompts of the two author-creation loops
CreationPrompts ==
    {"ab_yn", "ab_name", "ab_country", "ub_yn", "ub_new_name", "ub_new_country"}

\* the y/n prompt of the loop that prompt p belongs to
YesNoPrompt(p) == IF p \in {"ab_yn", "ab_name", "ab_country"} THEN "ab_yn" ELSE "ub_yn"

\* the loop is left on "n": the operation returns to the menu, no row written
LoopDeclined ==
    /\ \E s \in YesNoInputs :
          (EnterBookYesNo(s) \/ UpdateBookYesNo(s)) /\ Lower(Strip(s)) = <<"n">>
    /\ pc' = "menu"
    /\ author' = author

\* the loop is left on an insert: the one new author row has the id that was
\* asked for and a name and a country that pass the validation
LoopInserted ==
    LET id == IF pc = "ab_country" THEN author_id ELSE new_author_id
    IN  /\ pc \in {"ab_country", "ub_new_country"}
        /\ id \notin DOMAIN author
        /\ DOMAIN author' = DOMAIN author \cup {id}
        /\ TextCheck(author'[id].name) = "ok"
        /\ TextCheck(author'[id].country) = "ok"

\* C20: once the y/n prompt of an author-creation loop (AddBook, UpdateBook's
\* authorID leaf) is reached, the loop is left only with the author inserted
\* under the requested id with a validated name and country, or on "n"; any
\* other answer and any invalid name or country lead back to the y/n prompt
\* with the author table unchanged.
C20_CreationLoopExits ==
    [][/\ (pc \in CreationPrompts /\ pc' \notin CreationPrompts)
          => (LoopDeclined \/ LoopInserted)
       /\ (pc \in CreationPrompts /\ pc' \in CreationPrompts)
          => author' = author
       /\ \A s \in YesNoInputs :
            ((EnterBookYesNo(s) \/ UpdateBookYesNo(s))
               /\ Lower(Strip(s)) \notin { <<"y">>, <<"n">> })
            => (pc' = pc /\ author' = author)
       /\ \A s \in TextInputs :
            ((EnterBookAuthorName(s) \/ EnterBookAuthorCountry(s)
                \/ UpdateBookNewName(s) \/ UpdateBookNewCountry(s))
               /\ TextCheck(Strip(s)) # "ok")
            => (pc' = YesNoPrompt(pc) /\ author' = author)]_vars

\* AddBook has just left its creation loop with the author inserted
C20_Witness ==
    /\ pc = "ab_qty"
    /\ last = "EnterBookAuthorCountry"
    /\ inline
    /\ author_id \in DOMAIN author \ DOMAIN author_data
    /\ author[author_id] = AuthorRow(<<"A","l">>, <<"A","l">>)

\* C21: in every reachable state every book row is stored under an id in
\* [1000, 9999], which is the key of the table and so belongs to that row
\* alone, has a title with at least one character that is not whitespace, and
\* has a qty >= 0.
C21_BookRowsValid ==
    \A b \in DOMAIN book :
       /\ InRange(b)
       /\ \E i \in DOMAIN book[b].title : ~IsSpace(book[b].title[i])
       /\ book[b].qty >= 0

\* AddBook has stored a book under the largest id, with the smallest quantity
C21_Witness ==
    /\ pc = "menu"
    /\ 9999 \in DOMAIN book
    /\ book[9999].qty = 0
    /\ book[9999].title = <<"X">>

\* C22: in every reachable state the name and the country of every author
\* row are non-blank, start with a letter and are not purely numeric, whether
\* the row was seeded, created inline by AddBook or by UpdateBook, or
\* rewritten by the author-name or author-country leaf.
C22_AuthorTextValid ==
    \A a \in DOMAIN author : \A t \in {author[a].name, author[a].country} :
       /\ \E i \in DOMAIN t : ~IsSpace(t[i])
       /\ IsAlphaChar(t[1])
       /\ ~IsDigit(LStripMinus(t))

\* UpdateBook has created an author inline and then rewritten the country of
\* the author shown with the record
C22_Witness ==
    /\ pc = "ub_menu"
    /\ last = "UpdateBookAuthorCountry"
    /\ author[DisplayedAuthor].country = <<"A","l">>
    /\ DOMAIN author \ DOMAIN author_data # {}

\* C23: no step of the program, in any operation or at a restart, removes an
\* author row or gives it another id: an id of the author table before the
\* step is an id of the author table after it.
C23_AuthorsNeverRemoved ==
    [][DOMAIN author \subseteq DOMAIN author']_vars

\* the program has been started again and has reseeded its tables; the author
\* created inline in the earlier session is still there
C23_Witness ==
    /\ pc = "menu"
    /\ last = "data_sets"
    /\ DOMAIN author \ DOMAIN author_data # {}
    /\ DOMAIN author_data \subseteq DOMAIN author

\* C24: the seeding that every start runs after the schema creation leaves
\* the five seed books and the five seed authors in the store with their seed
\* values, whatever an earlier session did to the rows with those ids, and
\* leaves every book row and author row with another id as it was.
C24_SeedRestoredOthersKept ==
    [][data_sets
       => /\ DOMAIN book' = DOMAIN book \cup DOMAIN book_data
          /\ \A i \in DOMAIN book_data : book'[i] = book_data[i]
          /\ \A i \in DOMAIN book \ DOMAIN book_data : book'[i] = book[i]
          /\ DOMAIN author' = DOMAIN author \cup DOMAIN author_data
          /\ \A i \in DOMAIN author_data : author'[i] = author_data[i]
          /\ \A i \in DOMAIN author \ DOMAIN author_data :
               author'[i] = author[i]]_vars

\* a start has just reseeded a store from which an earlier session had
\* deleted seed book 3001 and to which it had added a book of its own: the
\* seed book is back, the added book is as it was
C24_Witness ==
    /\ pc = "menu"
    /\ last = "data_sets"
    /\ 3001 \notin DOMAIN before[1]
    /\ book[3001] = book_data[3001]
    /\ \E b \in DOMAIN book \ DOMAIN book_data : book[b] = before[1][b]

\* C25: the schema creation run on a store that already has the two tables,
\* as at every start after the first, leaves the tables in place and every
\* row of both as it was.
C25_SchemaCreationIdempotent ==
    [][(create_table /\ schema)
       => /\ schema'
          /\ book' = book
          /\ author' = author]_vars

\* the schema creation has just run again on a store that holds the seed
\* rows and a book of an earlier session
C25_Witness ==
    /\ pc = "seed"
    /\ last = "create_table"
    /\ schema
    /\ DOMAIN book_data \subseteq DOMAIN book
    /\ DOMAIN book \ DOMAIN book_data # {}
    /\ author # EmptyTable

\* C26: SearchBook issues its prompt again only for an answer that is not an
\* integer, without touching the store; for an integer it runs one lookup
\* and returns to the menu, whether or not a book was found.
C26_SearchRetriesOnlyMalformed ==
    [][\A s \in BookIdInputs :
         SearchId(s)
         => IF ParseInt(Strip(s)).ok
            THEN /\ pc' = "menu"
                 /\ acc' = << <<"select_book", ParseInt(Strip(s)).val>> >>
            ELSE /\ pc' = "se_id"
                 /\ acc' = <<>>
                 /\ out' = <<MsgIdInvalid>>]_vars

\* SearchBook is back at the menu after one lookup of a 4-digit id that no
\* book has
C26_Witness ==
    /\ pc = "menu"
    /\ last = "SearchId"
    /\ out = <<MsgNoBooksForId>>
    /\ shown = <<>>
    /\ Len(acc) = 1
    /\ InRange(acc[1][2])
    /\ acc[1][2] \notin DOMAIN book

\* C27: ViewAllDetails reports, for every book row, one entry made of the
\* book's title and the name and country of the author row stored under the
\* book's authorID, and nothing else: the entries reported are, counted with
\* their repetitions, the entries of the book rows.  Both tables are as they
\* were.
C27_ViewReportsEveryBook ==
    [][\A s \in MenuInputs :
         view_details(s)
         => /\ book' = book
            /\ author' = author
            /\ pc' = "menu"
            /\ \A b \in DOMAIN book : book[b].authorID \in DOMAIN author
            /\ Len(shown') = Cardinality(DOMAIN book)
            /\ \A b \in DOMAIN book :
                 LET t == <<book[b].title, author[book[b].authorID].name,
                            author[book[b].authorID].country>>
                 IN  Cardinality({ i \in DOMAIN shown' : shown'[i] = t })
                     = Cardinality({ c \in DOMAIN book :
                          <<book[c].title, author[book[c].authorID].name,
                            author[book[c].authorID].country>> = t })]_vars

\* ViewAllDetails has just reported the five seed books and a sixth, the book
\* that AddBook stored under an author it created inline
C27_Witness ==
    /\ pc = "menu"
    /\ last = "view_details"
    /\ Len(shown) = 6
    /\ \E i \in DOMAIN shown : shown[i] = << <<"X">>, <<"A","l">>, <<"A","l">> >>

\* C28 as stated: a step of UpdateBook that prints the success line of the
\* quantity, title, authorID, author-name or author-country update has
\* committed that write: the row holds the value the step was given.
C28_SuccessOnlyIfCommitted ==
    [][LET key == SqlInteger(id_chosen)
           shownAuthor == book_chosen[3]
       IN  /\ \A s \in QtyInputs :
                (UpdateBookQty(s) /\ MsgQtyUpdated \in Range(out'))
                => /\ key \in DOMAIN book'
                   /\ book'[key].qty = ParseInt(s).val
           /\ \A s \in TitleInputs :
                (UpdateBookTitle(s) /\ MsgTitleUpdated \in Range(out'))
                => /\ key \in DOMAIN book'
                   /\ book'[key].title = Strip(s)
           /\ \A s \in NewAuthorIdInputs :
                (UpdateBookAuthorId(s) /\ MsgAuthorIdSet \in Range(out'))
                => /\ key \in DOMAIN book'
                   /\ book'[key].authorID = ParseInt(s).val
           /\ \A s \in TextInputs :
                (UpdateBookNewCountry(s) /\ MsgAuthorIdSet \in Range(out'))
                => /\ key \in DOMAIN book'
                   /\ book'[key].authorID = new_author_id
           /\ \A s \in TextInputs :
                (UpdateBookAuthorName(s) /\ MsgNameUpdated \in Range(out'))
                => /\ shownAuthor \in DOMAIN author'
                   /\ author'[shownAuthor].name = Strip(s)
           /\ \A s \in TextInputs :
                (UpdateBookAuthorCountry(s) /\ MsgCountrySet \in Range(out'))
                => /\ shownAuthor \in DOMAIN author'
                   /\ author'[shownAuthor].country = Strip(s)]_vars

\* C29: in AddBook the author created inline is in the author table when the
\* quantity prompt is issued, before any book row is written, and stays there
\* with its name and country through every answer to the quantity prompt and
\* through the insert of the book, whether the book is inserted or turned
\* away because its id is already in the book table.
C29_InlineAuthorOutlivesInsert ==
    [][/\ \A s \in TextInputs :
            (EnterBookAuthorCountry(s) /\ TextCheck(Strip(s)) = "ok")
            => /\ pc' = "ab_qty"
               /\ author' = (author_id :> AuthorRow(name, Strip(s))) @@ author
               /\ book' = book
       /\ \A s \in QtyInputs :
            (EnterBookQty(s) /\ inline)
            => /\ author_id \in DOMAIN author'
               /\ author' = author
               /\ ~QtyAccepted(s) => (book' = book /\ pc' = "ab_qty")
               /\ (QtyAccepted(s) /\ book_id \in DOMAIN book)
                  => (book' = book /\ pc' = "menu")]_vars

\* AddBook is back at the menu, its book turned away as a duplicate; the
\* author it created inline is in the author table and no book refers to it
C29_Witness ==
    /\ pc = "menu"
    /\ last = "EnterBookQty"
    /\ out = <<MsgDbUnique>>
    /\ \E a \in DOMAIN author \ DOMAIN author_data :
          /\ author[a] = AuthorRow(<<"A","l">>, <<"A","l">>)
          /\ \A b \in DOMAIN book : book[b].authorID # a

\* C30: with no storage fault, DeleteBook chosen on an empty book table
\* reports that there is nothing to delete and is back at the menu at once,
\* both tables untouched; chosen on a non-empty table it asks for an id, asks
\* again after every answer that is not an integer, not in [1000, 9999] or
\* not the id of a book, nothing changed, and leaves its prompt only for the
\* menu, with the book of the id entered removed: one book row fewer than
\* when it was chosen.
C30_DeleteNoAbort ==
    [][/\ \A s \in MenuInputs :
            MenuDelete(s)
            => /\ book' = book
               /\ author' = author
               /\ IF book = EmptyTable
                  THEN pc' = "menu" /\ out' = <<MsgNoneToDelete>>
                  ELSE pc' = "del_id"
       /\ \A s \in DeleteIdInputs :
            DeleteId(s)
            => IF IdAccepted(s) /\ ParseInt(Strip(s)).val \in DOMAIN book
               THEN /\ pc' = "menu"
                    /\ DOMAIN book' = DOMAIN book \ {ParseInt(Strip(s)).val}
               ELSE /\ pc' = "del_id"
                    /\ out' # <<>>
                    /\ book' = book
                    /\ author' = author
       /\ (pc = "del_id" /\ pc' # "del_id")
          => /\ pc' = "menu"
             /\ Cardinality(DOMAIN book') = Cardinality(DOMAIN before[1]) - 1
             /\ \A b \in DOMAIN book' : book'[b] = before[1][b]
             /\ author' = before[2]]_vars

\* every book has been deleted, one DeleteBook each, and DeleteBook chosen
\* once more has returned at once: the book table is empty, the authors are
\* all there
C30_Witness ==
    /\ pc = "menu"
    /\ last = "MenuDelete"
    /\ out = <<MsgNoneToDelete>>
    /\ book = EmptyTable
    /\ author = author_data

\* the prompts of update_book
UpdateBookPrompts == {"ub_id", "ub_qty"} \cup UpdateBookAfterQty

\* C31: from the moment UpdateBook is chosen until it returns, the book table
\* keeps its ids, every book row but the chosen one is as it was when
\* UpdateBook was chosen, every author row that was there is still there and,
\* but for the one whose id was the chosen book's authorID when the record was
\* shown, is as it was; as long as no book is chosen nothing is written, and
\* the author row of the record keeps everything but its name and country.
C31_UpdateBookFrame ==
    [][(pc \in UpdateBookPrompts)
       => /\ DOMAIN book' = DOMAIN before[1]
          /\ DOMAIN before[2] \subseteq DOMAIN author'
          /\ IF pc = "ub_id"
             THEN book' = before[1] /\ author' = before[2]
             ELSE /\ \A b \in DOMAIN before[1] \ {SqlInteger(id_chosen)} :
                       book'[b] = before[1][b]
                  /\ \A a \in DOMAIN before[2] \ {DisplayedAuthor} :
                       author'[a] = before[2][a]]_vars

\* UpdateBook has set the quantity and the title of book 3001 and the name of
\* its author; the other four books and the other four authors are the seed
\* rows
C31_Witness ==
    /\ pc = "ub_menu"
    /\ last = "UpdateBookAuthorName"
    /\ id_chosen = <<"3","0","0","1">>
    /\ book[3001] = BookRow(<<"X">>, 1290, 7)
    /\ author[1290].name = <<"A","l">>
    /\ \A b \in DOMAIN book_data \ {3001} : book[b] = book_data[b]
    /\ \A a \in DOMAIN author_data \ {1290} : author[a] = author_data[a]

=============================================================================
